---- MODULE Spec2Model ----
(***************************************************************************)
(* Statement-delivery reconciliation job (src/oldcode.py).                 *)
(*                                                                         *)
(* run() = initialize -> fetch_records -> process_records ->               *)
(*         write_report_file -> send_notification_email -> dbh.close().    *)
(* The state is the job's position (pc), its arguments, the database       *)
(* session (committed tables, the session's uncommitted view, autocommit), *)
(* the report file, the lists the stages hand to each other, and the       *)
(* sequence of calls made to the outside world (calls).                    *)
(***************************************************************************)
EXTENDS Integers, Sequences, FiniteSets, TLC

\* ------------------------------------------------------------------ bounds
MaxRecs == 3    \* rows the eligibility query returns
MaxRuns == 2    \* scheduled invocations of the job
MaxOutcomes == 2 \* length of each list handed to a stage checked on its own

\* ------------------------------------------------------- values and inputs
None == "None"                       \* Python None (for string-valued args)
YN == {"Y", "N"}                     \* choices=['Y', 'N']
SomeDate == "01-15-2024"             \* a RUN_DATE in %m-%d-%Y form
Paper == "PAPR"                      \* the paper-default value the MERGE sets
Elec == "ELEC"                       \* any other flag value

Tables == {"persuserfield", "orguserfield"}
PersNbrs == {100, 101}
OrgNbrs == {900}
AllNbrs == PersNbrs \cup OrgNbrs

Rec(n, a, t) ==
  [ENTITY_NUMBER |-> n, ACCTNBR |-> a, ENTITY_TYPE |-> t, CLOSE_DATE |-> SomeDate]

\* rows the eligibility query can return: person 100 closed two accounts
Rows == {Rec(100, 501, "pers"), Rec(100, 502, "pers"),
         Rec(101, 503, "pers"), Rec(900, 700, "org")}

Range(s) == {s[i] : i \in 1..Len(s)}

SeqsUpTo(S, n) == UNION {[1..k -> S] : k \in 0..n}

InjSeqsUpTo(S, n) ==
  {s \in SeqsUpTo(S, n) : \A i, j \in 1..Len(s) : s[i] = s[j] => i = j}

\* str.upper() on the Y/N arguments
Upper(s) ==
  CASE s = "y" -> "Y"
    [] s = "n" -> "N"
    [] OTHER -> s

\* ---------------------------------------------------------- Python values
\* The first field of an outcome tuple is either an int (r['ENTITY_NUMBER'])
\* or the one-element list [nbr] taken from entity_nbrs.
PyInt(n) == [py |-> "int", v |-> n]
PyList1(n) == [py |-> "list", v |-> n]

\* a comparison that unwraps the one-element list (merge_ent_nbr[0])
PyEqUnwrapped(a, b) == a.v = b.v

\* Python ==: values of different types (int, list) are never equal
PyEq(a, b) == a.py = b.py /\ a.v = b.v

\* int == tuple is always False
IntEqTuple(n, t) == FALSE

\* `n in fails`, fails a list of 5-tuples
InFails(n, fails) == \E i \in 1..Len(fails) : IntEqTuple(n, fails[i])

\* ------------------------------------------------------------- the report
Header == <<"ENTITY_NBR", "ACCTNBR", "ENTITY_TYPE", "CLOSE_DATE", "RESULT">>
NoFile == [exists |-> FALSE, rows |-> <<>>]
StaleFile == [exists |-> TRUE, rows |-> <<Header>>]

\* dict(zip(header, rec)) read back in header order
RowOf(rec) == <<rec[1], rec[2], rec[3], rec[4], rec[5]>>

RowsOf(records) == [i \in 1..Len(records) |-> RowOf(records[i])]

\* write_report(path, records, write_mode): the file after the call, and the
\* exception it raises, if any.  `header` is bound only when write_mode is 'w'.
write_report(f, records, write_mode) ==
  IF write_mode = "w"
    THEN [file |-> [exists |-> TRUE, rows |-> <<Header>> \o RowsOf(records)],
          exc |-> None]
    ELSE [file |-> [exists |-> TRUE, rows |-> f.rows],
          exc |-> IF records = <<>> THEN None ELSE "UnboundLocalError"]

\* write_report_file: 'w' pass for successes, 'a+' pass for fails
write_report_file(f, successes, fails) ==
  LET w == IF successes # <<>> THEN write_report(f, successes, "w")
                               ELSE [file |-> f, exc |-> None]
      a == IF fails # <<>> THEN write_report(w.file, fails, "a+")
                           ELSE [file |-> w.file, exc |-> None]
  IN  [file |-> a.file, exc |-> a.exc,
       opens |-> (IF successes # <<>> THEN <<"open:w">> ELSE <<>>)
                 \o (IF fails # <<>> THEN <<"open:a+">> ELSE <<>>)]

\* ------------------------------------------------------------ the database
\* A delivery-flag table maps an entity number to its flag value.
FreshTables == [t \in Tables |-> [n \in AllNbrs |-> Elec]]

\* dna_db_connect with autocommit left on in every mode
dna_db_connect_always_on(rptonly_yn) == TRUE

\* dna_db_connect: the autocommit setting of the handle it returns
dna_db_connect(rptonly_yn) == Upper(rptonly_yn) = "N"

\* getbatcherrors(): the offsets (0-based) of the rejected rows, in row order
BatchErrors(entity_nbrs, failing) ==
  {i - 1 : i \in {j \in 1..Len(entity_nbrs) : entity_nbrs[j].v \in failing}}

RECURSIVE SortedOffsets(_)
SortedOffsets(S) ==
  IF S = {} THEN <<>>
  ELSE LET m == CHOOSE x \in S : \A y \in S : x <= y
       IN  <<m>> \o SortedOffsets(S \ {m})

\* executemany(sql_merge, entity_nbrs, batcherrors=True): every row that is
\* not rejected sets the entity's flag to the paper default in the session;
\* with autocommit on, the statement's changes are committed at once.
executemany(db, table_name, entity_nbrs, errors) ==
  LET t == [n \in AllNbrs |->
              IF \E i \in 1..Len(entity_nbrs) :
                   entity_nbrs[i].v = n /\ (i - 1) \notin errors
                THEN Paper ELSE db.txn[table_name][n]]
      txn2 == [db.txn EXCEPT ![table_name] = t]
  IN  [db EXCEPT !.txn = txn2,
                 !.stdl = IF db.autocommit THEN txn2 ELSE @,
                 !.calls = @ \o <<"executemany:" \o table_name>>
                             \o (IF db.autocommit THEN <<"autocommit">> ELSE <<>>)]

commit(db) == [db EXCEPT !.stdl = db.txn, !.calls = @ \o <<"commit">>]

rollback(db) == [db EXCEPT !.txn = db.stdl, !.calls = @ \o <<"rollback">>]

\* ------------------------------------------------- update_stdl_userfield
\* list(r['ENTITY_NUMBER'] for r in records), without the set()
EntityNbrListsNoSet(records) ==
  {[i \in 1..Len(records) |-> records[i].ENTITY_NUMBER]}

\* list(set(r['ENTITY_NUMBER'] for r in records)): the distinct entity
\* numbers, in whatever order the set iterates
EntityNbrLists(records) ==
  LET S == {records[i].ENTITY_NUMBER : i \in 1..Len(records)}
  IN  {s \in [1..Cardinality(S) -> S] : Range(s) = S}

\* the inner loop: one Fail tuple per record that compares equal
RECURSIVE FailRows(_, _)
FailRows(records, merge_ent_nbr) ==
  IF records = <<>> THEN <<>>
  ELSE LET rec == Head(records)
       IN  (IF PyEq(PyInt(rec.ENTITY_NUMBER), merge_ent_nbr)
              THEN <<<<merge_ent_nbr, rec.ACCTNBR, rec.ENTITY_TYPE,
                       rec.CLOSE_DATE, "Fail">>>>
              ELSE <<>>)
           \o FailRows(Tail(records), merge_ent_nbr)

\* the outer loop over batch_errors
RECURSIVE CollectFails(_, _, _)
CollectFails(records, entity_nbrs, batch_errors) ==
  IF batch_errors = <<>> THEN <<>>
  ELSE FailRows(records, entity_nbrs[Head(batch_errors) + 1])
       \o CollectFails(records, entity_nbrs, Tail(batch_errors))

\* the comprehension that builds successes
RECURSIVE SuccessRows(_, _)
SuccessRows(records, fails) ==
  IF records = <<>> THEN <<>>
  ELSE LET r == Head(records)
       IN  (IF ~InFails(r.ENTITY_NUMBER, fails)
              THEN <<<<PyInt(r.ENTITY_NUMBER), r.ACCTNBR, r.ENTITY_TYPE,
                       r.CLOSE_DATE, "Success">>>>
              ELSE <<>>)
           \o SuccessRows(Tail(records), fails)

NotCalled(records) ==
  [called |-> FALSE, records |-> records, entity_nbrs |-> <<>>,
   errors |-> {}, successes |-> <<>>, fails |-> <<>>]

\* update_stdl_userfield(script_data, records, table_name, col_name), with
\* the order of list(set(...)) and the rows the database rejects as inputs
update_stdl_userfield(db, rptonly_yn, records, table_name, filtered_nbrs, failing) ==
  IF records = <<>>
    THEN [db |-> db, out |-> NotCalled(records)]
    ELSE
      LET entity_nbrs == [i \in 1..Len(filtered_nbrs) |-> PyList1(filtered_nbrs[i])]
          errors == BatchErrors(entity_nbrs, failing)
          db1 == executemany(db, table_name, entity_nbrs, errors)
          fails == CollectFails(records, entity_nbrs, SortedOffsets(errors))
          db2 == IF Upper(rptonly_yn) = "N" THEN commit(db1) ELSE rollback(db1)
      IN  [db |-> db2,
           out |-> [called |-> TRUE, records |-> records,
                    entity_nbrs |-> entity_nbrs, errors |-> errors,
                    successes |-> SuccessRows(records, fails),
                    fails |-> fails]]

\* ------------------------------------------------------------ fetch_records
is_full_cleanup(a) == IF Upper(a.FULL_CLEANUP_YN) = "Y" THEN "True" ELSE None

\* the validation with the both-absent check left out
ParameterErrorBothOnly(a) ==
  is_full_cleanup(a) # None /\ a.RUN_DATE # None

\* the two `raise Exception('Parameter error ...')` conditions
ParameterError(a) ==
  \/ is_full_cleanup(a) # None /\ a.RUN_DATE # None
  \/ is_full_cleanup(a) = None /\ a.RUN_DATE = None

\* which join fragment is substituted into the query
close_date_join(a) ==
  IF is_full_cleanup(a) = None /\ a.RUN_DATE # None
    THEN "date_specific" ELSE "full_cleanup"

\* the split of the fetched rows by ENTITY_TYPE
ByType(records, t) == SelectSeq(records, LAMBDA r : r.ENTITY_TYPE = t)

\* ------------------------------------------------------ process_records
\* path.exists() answering False whatever is on disk
path_exists_never(f) == FALSE

\* path.exists()
path_exists(f) == f.exists

\* ------------------------------------------------------------ notification
NoRecipients == [none |-> TRUE, parts |-> <<>>]
Recipients(parts) == [none |-> FALSE, parts |-> parts]

\* truthiness of an Optional[str] argument
Truthy(s) == s # None /\ s # ""

\* truthiness of EMAIL_RECIPIENTS (None and '' are falsy)
RecipientsTruthy(r) == ~r.none /\ r.parts # <<"">>

\* is_local_environment(): AW_HOME unset or empty
is_local_environment(m) == ~Truthy(m.AW_HOME)

\* send_email_enabled answering True whatever SEND_EMAIL_YN is
send_email_enabled_always(m) == TRUE

\* send_email_enabled(apwx)
send_email_enabled(m) == Upper(m.SEND_EMAIL_YN) = "Y"

\* send_email(script_data, recipients); render_ok and smtp_ok are what the
\* template engine and the SMTP server do.  message is what it returns,
\* exc the exception that leaves it.
send_email(m, recipients, render_ok, smtp_ok) ==
  LET first == IF Len(recipients) > 0 THEN recipients[1] ELSE None
      to_address == IF Truthy(m.TEST_EMAIL_ADDR) THEN m.TEST_EMAIL_ADDR ELSE first
  IN  IF ~Truthy(to_address)
        THEN [calls |-> <<>>, message |-> "No email recipients", exc |-> None]
      ELSE IF ~render_ok
        THEN [calls |-> <<"render">>, message |-> None, exc |-> "TemplateError"]
      ELSE IF is_local_environment(m) \/ ~send_email_enabled(m)
        THEN [calls |-> <<"render">>, message |-> "Email Send Disabled", exc |-> None]
      ELSE IF smtp_ok
        THEN [calls |-> <<"render", "smtp">>, message |-> "Email Sent", exc |-> None]
        ELSE [calls |-> <<"render", "smtp">>, message |-> "Email Failed", exc |-> None]

\* send_notification_email(script_data, fails): the calls it makes, the line
\* it prints and the exception that leaves it
send_notification_email(fails, m, render_ok, smtp_ok) ==
  IF fails # <<>> /\ RecipientsTruthy(m.EMAIL_RECIPIENTS)
    THEN LET r == send_email(m, m.EMAIL_RECIPIENTS.parts, render_ok, smtp_ok)
         IN  [calls |-> r.calls, exc |-> r.exc,
              notice |-> IF r.exc = None THEN "result:" \o r.message ELSE None]
  ELSE IF fails # <<>> /\ m.EMAIL_RECIPIENTS.none /\ send_email_enabled(m)
    THEN [calls |-> <<>>, exc |-> None, notice |-> "No email recipients found"]
    ELSE [calls |-> <<>>, exc |-> None, notice |-> "No failed inserts/updates to report"]

\* ==================================================================== state
VARIABLES
  pc,            \* where run() is: start, fetch, process, write, notify, close, done, raised
  run_no,        \* which invocation of the job this is
  args,          \* apwx.args: RPTONLY_YN, FULL_CLEANUP_YN, RUN_DATE
  autocommit,    \* dbh.autocommit
  stdl,          \* the delivery-flag tables as committed
  txn,           \* the tables as the session sees them (uncommitted changes included)
  stdl0,         \* the committed tables when this run started
  dbRows,        \* what the eligibility query returns
  failNbrs,      \* the entity numbers whose MERGE row the database rejects
  file,          \* the report at OUTPUT_FILE_PATH/OUTPUT_FILE_NAME
  file0,         \* the report when this run started
  pers_records,  \* fetch_records' first result
  org_records,   \* fetch_records' second result
  upd,           \* per table: what update_stdl_userfield was given, submitted and returned
  successes,     \* process_records' first result
  fails,         \* process_records' second result
  mail,          \* the notification arguments and AW_HOME, once read
  notice,        \* the line send_notification_email printed
  exc,           \* the exception that ended run()
  calls,         \* the calls made to the database, the file system and the mail stack
  prev           \* the ledger of the previous run, when this run sees the same data

vars == <<pc, run_no, args, autocommit, stdl, txn, stdl0, dbRows, failNbrs, file,
          file0, pers_records, org_records, upd, successes, fails, mail, notice,
          exc, calls, prev>>

ArgSets == [RPTONLY_YN : YN, FULL_CLEANUP_YN : YN, RUN_DATE : {None, SomeDate}]

MailArgs ==
  [read : {TRUE},
   EMAIL_RECIPIENTS : {NoRecipients, Recipients(<<"ops@firsttechfed.com">>),
                       Recipients(<<"ops@firsttechfed.com", "it@firsttechfed.com">>)},
   SEND_EMAIL_YN : YN,
   TEST_EMAIL_ADDR : {None, "qa@firsttechfed.com"},
   AW_HOME : {None, "/opt/appworx"}]

Unread ==
  [read |-> FALSE, EMAIL_RECIPIENTS |-> NoRecipients, SEND_EMAIL_YN |-> "N",
   TEST_EMAIL_ADDR |-> None, AW_HOME |-> None]

NoPrev == [valid |-> FALSE, RPTONLY_YN |-> "N", successes |-> <<>>, fails |-> <<>>]

NbrsOf(records) == {records[i].ENTITY_NUMBER : i \in 1..Len(records)}

\* the outcome tuples of a given result, as the ledger holds them
Outcomes(result) ==
  {<<PyInt(r.ENTITY_NUMBER), r.ACCTNBR, r.ENTITY_TYPE, r.CLOSE_DATE, result>> : r \in Rows}

\* what every run starts from, whatever its inputs
Fresh ==
  /\ autocommit = FALSE
  /\ pers_records = <<>>
  /\ org_records = <<>>
  /\ upd = [t \in Tables |-> NotCalled(<<>>)]
  /\ mail = Unread
  /\ notice = None
  /\ exc = None
  /\ calls = <<>>

\* the job is started by the scheduler with parsed arguments
Init ==
  /\ pc = "start"
  /\ run_no = 1
  /\ args \in ArgSets
  /\ stdl = FreshTables
  /\ txn = FreshTables
  /\ stdl0 = FreshTables
  /\ dbRows \in InjSeqsUpTo(Rows, MaxRecs)
  /\ failNbrs \in SUBSET NbrsOf(dbRows)
  /\ file \in {NoFile, StaleFile}
  /\ file0 = file
  /\ successes = <<>>
  /\ fails = <<>>
  /\ prev = NoPrev
  /\ Fresh

\* ================================================================== actions
\* initialize(apwx): load the configuration, connect
Initialize ==
  /\ pc = "start"
  /\ autocommit' = dna_db_connect(args.RPTONLY_YN)
  /\ calls' = calls \o <<"connect">>
  /\ pc' = "fetch"
  /\ UNCHANGED <<run_no, args, stdl, txn, stdl0, dbRows, failNbrs, file, file0,
                 pers_records, org_records, upd, successes, fails, mail, notice,
                 exc, prev>>

\* fetch_records(script_data); sql_ok is whether execute_sql_select succeeds
FetchRecords ==
  /\ pc = "fetch"
  /\ \E sql_ok \in BOOLEAN :
       IF ParameterError(args)
         THEN /\ pc' = "raised"
              /\ exc' = "ParameterError"
              /\ UNCHANGED <<calls, pers_records, org_records>>
       ELSE IF ~sql_ok
         THEN /\ pc' = "raised"
              /\ exc' = "SQLError"
              /\ calls' = calls \o <<"select:" \o close_date_join(args)>>
              /\ UNCHANGED <<pers_records, org_records>>
         ELSE /\ pc' = "process"
              /\ calls' = calls \o <<"select:" \o close_date_join(args)>>
              /\ pers_records' = ByType(dbRows, "pers")
              /\ org_records' = ByType(dbRows, "org")
              /\ UNCHANGED exc
  /\ UNCHANGED <<run_no, args, autocommit, stdl, txn, stdl0, dbRows, failNbrs,
                 file, file0, upd, successes, fails, mail, notice, prev>>

\* process_records(script_data, pers_records, org_records): the existence
\* check, then update_stdl_userfield for persons and for organizations
ProcessRecords ==
  /\ pc = "process"
  /\ IF path_exists(file)
       THEN /\ pc' = "raised"
            /\ exc' = "FileExistsError"
            /\ UNCHANGED <<stdl, txn, calls, upd, successes, fails>>
       ELSE \E p_nbrs \in EntityNbrLists(pers_records),
               o_nbrs \in EntityNbrLists(org_records) :
              LET db0 == [stdl |-> stdl, txn |-> txn, autocommit |-> autocommit,
                          calls |-> calls]
                  p == update_stdl_userfield(db0, args.RPTONLY_YN, pers_records,
                                             "persuserfield", p_nbrs, failNbrs)
                  o == update_stdl_userfield(p.db, args.RPTONLY_YN, org_records,
                                             "orguserfield", o_nbrs, failNbrs)
              IN  /\ stdl' = o.db.stdl
                  /\ txn' = o.db.txn
                  /\ calls' = o.db.calls
                  /\ upd' = [t \in Tables |->
                               IF t = "persuserfield" THEN p.out ELSE o.out]
                  /\ successes' = p.out.successes \o o.out.successes
                  /\ fails' = p.out.fails \o o.out.fails
                  /\ pc' = "write"
                  /\ UNCHANGED exc
  /\ UNCHANGED <<run_no, args, autocommit, stdl0, dbRows, failNbrs, file, file0,
                 pers_records, org_records, mail, notice, prev>>

\* write_report_file(script_data, successes, fails)
WriteReportFile ==
  /\ pc = "write"
  /\ LET w == write_report_file(file, successes, fails)
     IN  /\ file' = w.file
         /\ calls' = calls \o w.opens
         /\ exc' = w.exc
         /\ pc' = IF w.exc = None THEN "notify" ELSE "raised"
  /\ UNCHANGED <<run_no, args, autocommit, stdl, txn, stdl0, dbRows, failNbrs,
                 file0, pers_records, org_records, upd, successes, fails, mail,
                 notice, prev>>

\* send_notification_email(script_data, fails).  The notification arguments
\* are read here for the first time, and only when fails is non-empty
\* (`fails and ...` short-circuits).
SendNotificationEmail ==
  /\ pc = "notify"
  /\ \E m \in (IF fails = <<>> THEN {Unread} ELSE MailArgs),
        render_ok \in BOOLEAN, smtp_ok \in BOOLEAN :
       LET r == send_notification_email(fails, m, render_ok, smtp_ok)
       IN  /\ mail' = m
           /\ calls' = calls \o r.calls
           /\ notice' = r.notice
           /\ exc' = r.exc
           /\ pc' = IF r.exc = None THEN "close" ELSE "raised"
  /\ UNCHANGED <<run_no, args, autocommit, stdl, txn, stdl0, dbRows, failNbrs,
                 file, file0, pers_records, org_records, upd, successes, fails,
                 prev>>

\* script_data.dbh.close(); return True
Close ==
  /\ pc = "close"
  /\ calls' = calls \o <<"close">>
  /\ pc' = "done"
  /\ UNCHANGED <<run_no, args, autocommit, stdl, txn, stdl0, dbRows, failNbrs,
                 file, file0, pers_records, org_records, upd, successes, fails,
                 mail, notice, exc, prev>>

\* The other report-only setting
Flip(yn) == IF Upper(yn) = "Y" THEN "N" ELSE "Y"

\* The scheduler runs the completed job again with RPTONLY_YN switched (a
\* report-only rehearsal and the real run, in either order) and a new output
\* file name, while the database presents the same eligible rows and rejects
\* the same entities.  The new run opens a new session.
Rerun ==
  /\ pc = "done"
  /\ run_no < MaxRuns
  /\ run_no' = run_no + 1
  /\ pc' = "start"
  /\ args' = [args EXCEPT !.RPTONLY_YN = Flip(@)]
  /\ file' = NoFile
  /\ file0' = NoFile
  /\ stdl0' = stdl
  /\ txn' = stdl
  /\ prev' = [RPTONLY_YN |-> args.RPTONLY_YN, successes |-> successes,
              fails |-> fails, valid |-> TRUE]
  /\ successes' = <<>>
  /\ fails' = <<>>
  /\ autocommit' = FALSE
  /\ pers_records' = <<>>
  /\ org_records' = <<>>
  /\ upd' = [t \in Tables |-> NotCalled(<<>>)]
  /\ mail' = Unread
  /\ notice' = None
  /\ exc' = None
  /\ calls' = <<>>
  /\ UNCHANGED <<stdl, dbRows, failNbrs>>

Next ==
  \/ Initialize
  \/ FetchRecords
  \/ ProcessRecords
  \/ WriteReportFile
  \/ SendNotificationEmail
  \/ Close
  \/ Rerun

Spec == Init /\ [][Next]_vars

\* ------------------------------------------- stages checked on their own
\* write_report_file applied to any success list and fail list
InitReport ==
  /\ pc = "write"
  /\ run_no = 1
  /\ args \in {a \in ArgSets : ~ParameterError(a)}
  /\ stdl = FreshTables
  /\ txn = FreshTables
  /\ stdl0 = FreshTables
  /\ dbRows = <<>>
  /\ failNbrs = {}
  /\ file = NoFile
  /\ file0 = NoFile
  /\ successes \in InjSeqsUpTo(Outcomes("Success"), MaxOutcomes)
  /\ fails \in InjSeqsUpTo(Outcomes("Fail"), MaxOutcomes)
  /\ prev = NoPrev
  /\ Fresh

NextReport == WriteReportFile

SpecReport == InitReport /\ [][NextReport]_vars

\* send_notification_email applied to any fail list, then the rest of run()
InitNotify ==
  /\ pc = "notify"
  /\ run_no = 1
  /\ args \in {a \in ArgSets : ~ParameterError(a)}
  /\ stdl = FreshTables
  /\ txn = FreshTables
  /\ stdl0 = FreshTables
  /\ dbRows = <<>>
  /\ failNbrs = {}
  /\ file = NoFile
  /\ file0 = NoFile
  /\ successes = <<>>
  /\ fails \in InjSeqsUpTo(Outcomes("Fail"), MaxOutcomes)
  /\ prev = NoPrev
  /\ Fresh

NextNotify ==
  \/ SendNotificationEmail
  \/ Close

SpecNotify == InitNotify /\ [][NextNotify]_vars

\* =================================================================== claims
Called(c) == c \in Range(calls)

QueryRun == Called("select:date_specific") \/ Called("select:full_cleanup")

Upserted == Called("executemany:persuserfield") \/ Called("executemany:orguserfield")

Mutated == Upserted \/ Called("commit") \/ Called("rollback") \/ Called("autocommit")

\* the (entity_number, account_number) of an outcome tuple
KeyOf(o) == <<o[1].v, o[2]>>

\* the entity number submitted at a row offset of table t's batch
NbrAt(t, off) == upd[t].entity_nbrs[off + 1].v

\* whether entity number n was at a failed row offset of table t's batch
FailedNbr(t, n) == \E off \in upd[t].errors : NbrAt(t, off) = n

\* C1: for every batch error of a table, every input record of that table
\* whose ENTITY_NUMBER is the one submitted at the error's row offset is in
\* the returned fails list, as one 'Fail' outcome.
C1_FailedEntityRecordsAllFail ==
  \A t \in Tables :
    \A off \in upd[t].errors :
      \A i \in 1..Len(upd[t].records) :
        LET r == upd[t].records[i]
            hits == {j \in 1..Len(upd[t].fails) :
                       /\ KeyOf(upd[t].fails[j]) = <<r.ENTITY_NUMBER, r.ACCTNBR>>
                       /\ upd[t].fails[j][5] = "Fail"}
        IN  r.ENTITY_NUMBER = NbrAt(t, off) => Cardinality(hits) = 1

\* C2: a record is returned as a 'Success' outcome if and only if its entity
\* number was not at a failed row offset of the batch.
C2_SuccessIffNotFailed ==
  \A t \in Tables :
    upd[t].called =>
      \A i \in 1..Len(upd[t].records) :
        LET r == upd[t].records[i]
            ok == \E j \in 1..Len(upd[t].successes) :
                    /\ KeyOf(upd[t].successes[j]) = <<r.ENTITY_NUMBER, r.ACCTNBR>>
                    /\ upd[t].successes[j][5] = "Success"
        IN  ok <=> ~FailedNbr(t, r.ENTITY_NUMBER)

\* C3: per table, len(successes) + len(fails) = len(records), no
\* (entity_number, account_number) is in both lists, and every input record
\* has exactly one outcome.
C3_OneOutcomePerRecord ==
  \A t \in Tables :
    LET u == upd[t]
        all == u.successes \o u.fails
    IN  /\ Len(u.successes) + Len(u.fails) = Len(u.records)
        /\ \A j \in 1..Len(u.successes), k \in 1..Len(u.fails) :
             KeyOf(u.successes[j]) # KeyOf(u.fails[k])
        /\ \A i \in 1..Len(u.records) :
             Cardinality({j \in 1..Len(all) :
                            KeyOf(all[j]) = <<u.records[i].ENTITY_NUMBER,
                                              u.records[i].ACCTNBR>>}) = 1

\* C3 witness: a batch with a rejected row was processed for a table with at
\* least two input records.
C3_Witness ==
  \E t \in Tables :
    upd[t].called /\ upd[t].errors # {} /\ Len(upd[t].records) >= 2

\* C4: with both run modes selected, or neither, fetch_records raises the
\* parameter error and no query (and no upsert) is executed; the query is
\* executed only when exactly one run mode is selected.
C4_RunModeValidated ==
  LET full == args.FULL_CLEANUP_YN = "Y"
      dated == args.RUN_DATE # None
      bad == (full /\ dated) \/ (~full /\ ~dated)
  IN  /\ (bad /\ pc \notin {"start", "fetch"}) =>
           (pc = "raised" /\ exc = "ParameterError" /\ ~QueryRun /\ ~Mutated)
      /\ QueryRun => ~bad

\* C4 witness: a run with neither run mode selected was stopped by
\* fetch_records.
C4_Witness ==
  /\ pc = "raised"
  /\ exc = "ParameterError"
  /\ args.FULL_CLEANUP_YN = "N"
  /\ args.RUN_DATE = None

\* C5: a report-only run leaves the committed delivery-flag tables as they
\* were when it started (nothing committed or auto-committed, every upsert
\* rolled back), and over the same fetched records and the same rejected
\* rows it returns the ledger the run with the other RPTONLY_YN returned.
C5_ReportOnlySameLedgerNoChange ==
  /\ args.RPTONLY_YN = "Y" =>
       /\ stdl = stdl0
       /\ ~Called("commit")
       /\ ~Called("autocommit")
       /\ pc \in {"write", "notify", "close", "done"} => txn = stdl0
       /\ \A t \in Tables :
            upd[t].called => Called("rollback")
  /\ (pc \in {"write", "notify", "close", "done"} /\ prev.valid
        /\ prev.RPTONLY_YN # args.RPTONLY_YN) =>
       (successes = prev.successes /\ fails = prev.fails)

\* C5 witness: a report-only run that submitted a batch with an accepted row
\* and a rejected row has finished, after a committing run over the same data.
C5_Witness ==
  /\ pc = "done"
  /\ args.RPTONLY_YN = "Y"
  /\ prev.valid
  /\ prev.RPTONLY_YN = "N"
  /\ \E t \in Tables :
       /\ upd[t].called
       /\ upd[t].errors # {}
       /\ Cardinality(upd[t].errors) < Len(upd[t].entity_nbrs)

\* C6 as stated: when the report exists at the start of the run, the run does
\* not complete, the destination-already-exists error is raised with no
\* eligibility query executed, nothing is upserted, committed or rolled back,
\* and the file is unmodified.
C6_AbortsBeforeFetch ==
  file0.exists =>
    /\ pc \notin {"write", "notify", "close", "done"}
    /\ exc = "FileExistsError" => ~QueryRun
    /\ ~Mutated
    /\ file = file0

\* C6 as amended: when the report exists at the start of the run, the run
\* does not complete, nothing is upserted, committed or rolled back and the
\* file is unmodified; the destination-already-exists error is raised by
\* process_records, after fetch_records has executed the eligibility query
\* (fetch_records' own errors come first).
C6_AbortsBeforeUpsert ==
  file0.exists =>
    /\ pc \notin {"write", "notify", "close", "done"}
    /\ ~Mutated
    /\ file = file0
    /\ pc = "raised" => exc \in {"ParameterError", "SQLError", "FileExistsError"}
    /\ (pc = "raised" /\ exc = "FileExistsError") => QueryRun
    /\ (QueryRun /\ pc = "raised" /\ exc # "SQLError") => exc = "FileExistsError"

\* C6 witness: a run that found the report in place was stopped by
\* process_records, the query already executed.
C6_Witness ==
  /\ file0.exists
  /\ pc = "raised"
  /\ exc = "FileExistsError"
  /\ QueryRun

\* C7: for any success list and fail list, write_report_file completes
\* without error and the file is the header row, the Success rows, then the
\* Fail rows (nothing is required of the file when both lists are empty).
C7_ReportIsHeaderSuccessesFails ==
  pc # "write" =>
    /\ pc # "raised"
    /\ (successes # <<>> \/ fails # <<>>) =>
         (file.exists /\ file.rows = <<Header>> \o RowsOf(successes) \o RowsOf(fails))

\* C8: no failure of template rendering or of the SMTP conversation leaves
\* send_notification_email: run() goes on to close the connection.
C8_NotificationFailureNeverPropagates ==
  pc # "raised" /\ exc = None

\* C9 as stated: the decision table of send_notification_email (a send is
\* not asked for when rendering itself failed).
C9_DecisionTable ==
  LET recipients == ~mail.EMAIL_RECIPIENTS.none
      enabled == mail.SEND_EMAIL_YN = "Y"
  IN  pc # "notify" =>
        /\ fails = <<>> => ~Called("smtp")
        /\ (fails # <<>> /\ ~recipients /\ enabled) =>
             (~Called("smtp") /\ notice = "No email recipients found")
        /\ ~enabled => ~Called("smtp")
        /\ (fails # <<>> /\ recipients /\ enabled) =>
             /\ Called("render")
             /\ exc = None => Called("smtp")

\* C9 as amended: the same table, the last row reading: with fails,
\* recipients and sending enabled the template is rendered, and a send is
\* attempted exactly when rendering succeeds and AW_HOME is set (outside a
\* local development environment).
C9_DecisionTableLocalEnv ==
  LET recipients == ~mail.EMAIL_RECIPIENTS.none
      enabled == mail.SEND_EMAIL_YN = "Y"
      local == mail.AW_HOME = None
  IN  pc # "notify" =>
        /\ fails = <<>> => ~Called("smtp")
        /\ (fails # <<>> /\ ~recipients /\ enabled) =>
             (~Called("smtp") /\ notice = "No email recipients found")
        /\ ~enabled => ~Called("smtp")
        /\ (fails # <<>> /\ recipients /\ enabled) =>
             /\ Called("render")
             /\ Called("smtp") <=> (exc = None /\ ~local)

\* C9 witness: with fails, recipients, sending enabled and AW_HOME set the
\* send was attempted.
C9_Witness ==
  /\ pc = "close"
  /\ fails # <<>>
  /\ ~mail.EMAIL_RECIPIENTS.none
  /\ mail.SEND_EMAIL_YN = "Y"
  /\ mail.AW_HOME # None
  /\ Called("render")
  /\ Called("smtp")

\* C10: the batch submitted for a table holds each distinct ENTITY_NUMBER of
\* its input records exactly once, in a single executemany call, and the
\* ledger holds one row per input record of each entity.
C10_BatchDedupedLedgerPerRecord ==
  \A t \in Tables :
    LET u == upd[t]
        all == u.successes \o u.fails
    IN  u.called =>
          /\ Cardinality({i \in 1..Len(calls) : calls[i] = "executemany:" \o t}) = 1
          /\ \A i \in 1..Len(u.entity_nbrs) : u.entity_nbrs[i].v \in NbrsOf(u.records)
          /\ \A n \in NbrsOf(u.records) :
               /\ Cardinality({i \in 1..Len(u.entity_nbrs) : u.entity_nbrs[i].v = n}) = 1
               /\ Cardinality({j \in 1..Len(all) : all[j][1].v = n})
                    = Cardinality({i \in 1..Len(u.records) : u.records[i].ENTITY_NUMBER = n})

\* C10 witness: an entity with two qualifying accounts was upserted.
C10_Witness ==
  \E t \in Tables :
    /\ upd[t].called
    /\ \E i, j \in 1..Len(upd[t].records) :
         /\ i # j
         /\ upd[t].records[i].ENTITY_NUMBER = upd[t].records[j].ENTITY_NUMBER

====
